---- MODULE Spec2Model ----
(***************************************************************************)
(* Event RSVP over WhatsApp: the event store, the RSVP store, the reply    *)
(* classifier and the two orchestration paths (sendInvitations and the     *)
(* inbound reply handler), as one state machine.                           *)
(*                                                                         *)
(* The server is one Node.js event loop.  A request handler runs           *)
(* atomically from one `await` on gateway I/O (or a timer) to the next;    *)
(* every action below is one such run-to-suspension segment.               *)
(***************************************************************************)
EXTENDS Integers, Sequences, FiniteSets, TLC

VARIABLES
  ready,      \* WhatsAppService.isClientReady(): fixed by the configuration
  eventObjs,  \* every Event object constructed and stored, by object identity
  events,     \* EventService.events: Map key -> Event object (identity)
  rsvps,      \* RSVPService.rsvps: Map in insertion order, row = RSVP object
  rsvpIndex,  \* RSVPService.rsvpIndex: <<eventId, phoneNumber>> -> row
  sends,      \* the sendInvitations requests suspended in an await, by slot
  replies,    \* the handleWhatsAppMessage invocations, and the webhook
              \* requests that call it, suspended in an await, by slot
  out         \* what the last step handed back: the HTTP response written,
              \* or the handler invocation that returned

vars == <<ready, eventObjs, events, rsvps, rsvpIndex, sends, replies, out>>

(***************************************************************************)
(* Bounds of the model.                                                    *)
(***************************************************************************)
MaxEvents   == 2   \* Event objects ever stored
MaxInvitees == 2   \* length of an invitee list
MaxRows     == 2   \* RSVP rows ever created
MaxSending  == 1   \* sendInvitations requests in flight at once
MaxHandling == 1   \* reply handlers in flight at once

(***************************************************************************)
(* Strings are sequences of one-character strings, so that lower-casing,   *)
(* trimming, substring search and digit stripping are computed.            *)
(***************************************************************************)
UpperCase == <<"A","B","C","D","E","F","G","H","I","J","K","L","M",
               "N","O","P","Q","R","S","T","U","V","W","X","Y","Z">>
LowerCase == <<"a","b","c","d","e","f","g","h","i","j","k","l","m",
               "n","o","p","q","r","s","t","u","v","w","x","y","z">>
WhiteSpace == {" ", "\t", "\n", "\r"}
Digits == {"0","1","2","3","4","5","6","7","8","9"}

\* String.prototype.toLowerCase, one character
ToLowerChar(c) ==
  IF \E i \in 1..Len(UpperCase) : UpperCase[i] = c
  THEN LowerCase[CHOOSE i \in 1..Len(UpperCase) : UpperCase[i] = c]
  ELSE c

\* String.prototype.toLowerCase
ToLowerCase(s) == [i \in 1..Len(s) |-> ToLowerChar(s[i])]

\* String.prototype.trim
Trim(s) ==
  LET keep == {i \in 1..Len(s) : s[i] \notin WhiteSpace}
  IN IF keep = {} THEN <<>>
     ELSE LET lo == CHOOSE i \in keep : \A j \in keep : i <= j
              hi == CHOOSE i \in keep : \A j \in keep : i >= j
          IN SubSeq(s, lo, hi)

\* String.prototype.includes
Includes(s, p) ==
  \E i \in 0..(Len(s) - Len(p)) : \A j \in 1..Len(p) : s[i + j] = p[j]

RECURSIVE StripNonDigits(_)
StripNonDigits(s) ==
  IF s = <<>> THEN <<>>
  ELSE IF Head(s) \in Digits THEN <<Head(s)>> \o StripNonDigits(Tail(s))
       ELSE StripNonDigits(Tail(s))

\* WhatsAppService.formatPhoneNumber: phoneNumber.replace(/\D/g, '')
FormatPhoneNumber(phoneNumber) == StripNonDigits(phoneNumber)

(***************************************************************************)
(* Response classifier.                                                    *)
(***************************************************************************)
CheckMark  == "U+2705"   \* the emoji are single tokens
ThumbsUp   == "U+1F44D"
CrossMark  == "U+274C"
ThumbsDown == "U+1F44E"

acceptPatterns == <<
  <<"a","c","c","e","p","t">>,
  <<"y","e","s">>,
  <<"s","u","r","e">>,
  <<"o","k">>,
  <<"o","k","a","y">>,
  <<"c","o","n","f","i","r","m">>,
  <<"c","o","n","f","i","r","m","e","d">>,
  <<"a","t","t","e","n","d","i","n","g">>,
  <<"w","i","l","l"," ","a","t","t","e","n","d">>,
  <<"i","'","l","l"," ","b","e"," ","t","h","e","r","e">>,
  <<"i","'","l","l"," ","c","o","m","e">>,
  <<"c","o","u","n","t"," ","m","e"," ","i","n">>,
  <<CheckMark>>,
  <<ThumbsUp>> >>

declinePatterns == <<
  <<"d","e","c","l","i","n","e">>,
  <<"n","o">>,
  <<"n","o","p","e">>,
  <<"s","o","r","r","y">>,
  <<"c","a","n","n","o","t">>,
  <<"c","a","n","'","t">>,
  <<"u","n","a","b","l","e">>,
  <<"n","o","t"," ","a","t","t","e","n","d","i","n","g">>,
  <<"w","o","n","'","t"," ","a","t","t","e","n","d">>,
  <<"c","a","n","'","t"," ","m","a","k","e"," ","i","t">>,
  <<"w","o","n","'","t"," ","b","e"," ","t","h","e","r","e">>,
  <<"c","o","u","n","t"," ","m","e"," ","o","u","t">>,
  <<CrossMark>>,
  <<ThumbsDown>> >>

\* a variant of the pattern test that wants the text to be a pattern
SomeEqual(patterns, text) ==
  \E k \in 1..Len(patterns) : text = patterns[k]

\* Array.prototype.some(pattern => text.includes(pattern))
SomeIncluded(patterns, text) ==
  \E k \in 1..Len(patterns) : Includes(text, patterns[k])

\* a variant of parseRSVPResponse that matches the text as written
parseRSVPResponseAsWritten(text) ==
  LET normalizedText == Trim(text)
  IN IF SomeIncluded(acceptPatterns, normalizedText) THEN "accepted"
     ELSE IF SomeIncluded(declinePatterns, normalizedText) THEN "declined"
     ELSE "null"

\* a variant of parseRSVPResponse that tests the decline patterns first
parseRSVPResponseDeclineFirst(text) ==
  LET normalizedText == Trim(ToLowerCase(text))
  IN IF SomeIncluded(declinePatterns, normalizedText) THEN "declined"
     ELSE IF SomeIncluded(acceptPatterns, normalizedText) THEN "accepted"
     ELSE "null"

\* WebhookController.parseRSVPResponse; "null" is the unrecognized verdict
parseRSVPResponse(text) ==
  LET normalizedText == Trim(ToLowerCase(text))
  IN IF SomeIncluded(acceptPatterns, normalizedText) THEN "accepted"
     ELSE IF SomeIncluded(declinePatterns, normalizedText) THEN "declined"
     ELSE "null"


(***************************************************************************)
(* Event model and Event Store.  An Event object is a record holding only  *)
(* the fields that are defined; a field left out of the input is absent.   *)
(* Event ids are numbers: generateId yields a fresh one.                   *)
(***************************************************************************)
Phones == { <<"1">>, <<"2">> }

RECURSIVE SeqsUpTo(_, _)
SeqsUpTo(S, n) ==
  IF n = 0 THEN { <<>> }
  ELSE LET shorter == SeqsUpTo(S, n - 1)
       IN shorter \cup { Append(q, x) : q \in { r \in shorter : Len(r) = n - 1 }, x \in S }

InviteeLists == SeqsUpTo(Phones, MaxInvitees)

Gala == <<"G","a","l","a">>

\* the request bodies of POST /events: every field optional; a choice is a
\* record holding the field, or the empty record
EventInputs(titles, dates, times, lists, ids) ==
  { t @@ d @@ m @@ v @@ k : t \in titles, d \in dates, m \in times, v \in lists, k \in ids }

ValidTitles == { [title |-> Gala] }
ValidDates  == { [date |-> "2026-12-31"] }
ValidTimes  == { [time |-> "18:00"] }
\* the two phone numbers are interchangeable: a list that is not empty
\* starts with the first
Invitees    ==
  { [invitees |-> l] : l \in { q \in InviteeLists : q = <<>> \/ q[1] = <<"1">> } }
NoId        == { <<>> }

\* the empty string as an id (ids are numbers here)
EmptyId == 0

\* a variant of the constructor that generates the id whatever the input
EventFreshId(data, fresh) ==
  [ id       |-> fresh,
    invitees |-> IF "invitees" \in DOMAIN data THEN data.invitees ELSE <<>>,
    status   |-> IF "status" \in DOMAIN data THEN data.status ELSE "draft" ]
  @@ [ f \in DOMAIN data \cap {"title", "date", "time"} |-> data[f] ]

\* Event.constructor, with generateId() = fresh
Event(data, fresh) ==
  [ id       |-> IF "id" \in DOMAIN data /\ data.id # EmptyId THEN data.id ELSE fresh,
    invitees |-> IF "invitees" \in DOMAIN data THEN data.invitees ELSE <<>>,
    status   |-> IF "status" \in DOMAIN data THEN data.status ELSE "draft" ]
  @@ [ f \in DOMAIN data \cap {"title", "date", "time"} |-> data[f] ]

\* a variant of validate that stops at the first violated rule
validateFirst(event) ==
  LET errors ==
        IF "title" \notin DOMAIN event \/ Trim(event.title) = <<>>
        THEN <<"Event title is required">>
        ELSE IF "date" \notin DOMAIN event \/ event.date = ""
        THEN <<"Event date is required">>
        ELSE IF "time" \notin DOMAIN event \/ event.time = ""
        THEN <<"Event time is required">>
        ELSE IF Len(event.invitees) = 0
        THEN <<"At least one invitee is required">>
        ELSE <<>>
  IN [isValid |-> errors = <<>>, errors |-> errors]

\* Event.validate: the list of violated rules
validate(event) ==
  LET e1 == IF "title" \notin DOMAIN event \/ Trim(event.title) = <<>>
            THEN <<"Event title is required">> ELSE <<>>
      e2 == IF "date" \notin DOMAIN event \/ event.date = ""
            THEN <<"Event date is required">> ELSE <<>>
      e3 == IF "time" \notin DOMAIN event \/ event.time = ""
            THEN <<"Event time is required">> ELSE <<>>
      e4 == IF Len(event.invitees) = 0
            THEN <<"At least one invitee is required">> ELSE <<>>
      errors == e1 \o e2 \o e3 \o e4
  IN [isValid |-> errors = <<>>, errors |-> errors]

\* nothing was handed back by the last step
NoOut == [op |-> "none"]

\* an Event object nothing refers to any more
Garbage == [status |-> "collected"]

\* garbage collection: an Event object stays as long as the Map or a
\* suspended sendInvitations (its local `event`) refers to it
Collect(objs, map, requests) ==
  [ r \in DOMAIN objs |->
      IF \/ \E k \in DOMAIN map : map[k] = r
         \/ \E o \in DOMAIN requests :
               requests[o].pc # "idle" /\ requests[o].event = r
      THEN objs[r] ELSE Garbage ]

\* Map.prototype.set
MapSet(map, key, value) ==
  [k \in DOMAIN map \cup {key} |-> IF k = key THEN value ELSE map[k]]

\* Map.prototype.delete
MapDelete(map, key) == [k \in DOMAIN map \ {key} |-> map[k]]

\* EventService.createEvent: POST /events
createEvent(data) ==
  /\ Len(eventObjs) < MaxEvents
  /\ LET event == Event(data, Len(eventObjs) + 1)
     IN IF validate(event).isValid
        THEN /\ events' = MapSet(events, event.id, Len(eventObjs) + 1)
             /\ eventObjs' = Collect(Append(eventObjs, event), events', sends)
             /\ out' = [op |-> "createEvent", status |-> 201, request |-> data,
                        id |-> event.id]
        ELSE /\ UNCHANGED <<eventObjs, events>>
             /\ out' = [op |-> "createEvent", status |-> 400, request |-> data,
                        message |-> validate(event).errors]
  /\ UNCHANGED <<ready, rsvps, rsvpIndex, sends, replies>>

\* the request bodies of PUT /events/:id
UpdateInputs == { [status |-> "draft"], [status |-> "sent"] }

\* EventService.updateEvent: Object.assign(event, updates)
\* (an unknown id changes nothing)
updateEvent(eventId, updates) ==
  /\ eventId \in DOMAIN events
  /\ eventObjs' = [eventObjs EXCEPT ![events[eventId]] = updates @@ @]
  /\ out' = NoOut
  /\ UNCHANGED <<ready, events, rsvps, rsvpIndex, sends, replies>>

\* a variant of deleteEvent that also drops the requests that are sending
\* the event's invitations
deleteEventCancels(eventId) ==
  /\ eventId \in DOMAIN events
  /\ events' = MapDelete(events, eventId)
  /\ sends' = [o \in DOMAIN sends |->
                IF sends[o].pc # "idle" /\ sends[o].id = eventId
                THEN [pc |-> "idle"] ELSE sends[o]]
  /\ eventObjs' = Collect(eventObjs, events', sends')
  /\ out' = NoOut
  /\ UNCHANGED <<ready, rsvps, rsvpIndex, replies>>

\* EventService.deleteEvent
\* (an unknown id changes nothing)
deleteEvent(eventId) ==
  /\ eventId \in DOMAIN events
  /\ events' = MapDelete(events, eventId)
  /\ eventObjs' = Collect(eventObjs, events', sends)
  /\ out' = NoOut
  /\ UNCHANGED <<ready, rsvps, rsvpIndex, sends, replies>>

\* a variant of markEventAsSent that leaves the status alone
markEventAsSentOmitted(eventId) == eventObjs

\* EventService.markEventAsSent: the Event objects afterwards
markEventAsSent(eventId) ==
  IF eventId \in DOMAIN events
  THEN [eventObjs EXCEPT ![events[eventId]].status = "sent"]
  ELSE eventObjs

(***************************************************************************)
(* RSVP model and RSVP Store.  A store value is the pair of Maps.          *)
(***************************************************************************)
\* RSVP.constructor as called by createRSVPsForEvent
RSVP(eventId, phoneNumber) ==
  [ eventId     |-> eventId,
    phoneNumber |-> phoneNumber,
    contactName |-> "Unknown",
    response    |-> "pending",
    message     |-> <<>>,
    respondedAt |-> "null" ]

\* the index key `${eventId}:${phoneNumber}`
IndexKey(eventId, phoneNumber) == <<eventId, ":">> \o phoneNumber

RECURSIVE createRSVPsForEventOnce(_, _, _)
\* a variant of createRSVPsForEvent that creates no row for a pair that is
\* in the index
createRSVPsForEventOnce(store, eventId, phoneNumbers) ==
  IF phoneNumbers = <<>> THEN store
  ELSE IF IndexKey(eventId, Head(phoneNumbers)) \in DOMAIN store.rsvpIndex
  THEN createRSVPsForEventOnce(store, eventId, Tail(phoneNumbers))
  ELSE LET row == Len(store.rsvps) + 1
           next == [ rsvps     |-> Append(store.rsvps, RSVP(eventId, Head(phoneNumbers))),
                     rsvpIndex |-> MapSet(store.rsvpIndex,
                                          IndexKey(eventId, Head(phoneNumbers)), row) ]
       IN createRSVPsForEventOnce(next, eventId, Tail(phoneNumbers))

RECURSIVE createRSVPsForEvent(_, _, _)
\* RSVPService.createRSVPsForEvent: the store afterwards
createRSVPsForEvent(store, eventId, phoneNumbers) ==
  IF phoneNumbers = <<>> THEN store
  ELSE LET row == Len(store.rsvps) + 1
           next == [ rsvps     |-> Append(store.rsvps, RSVP(eventId, Head(phoneNumbers))),
                     rsvpIndex |-> MapSet(store.rsvpIndex,
                                          IndexKey(eventId, Head(phoneNumbers)), row) ]
       IN createRSVPsForEvent(next, eventId, Tail(phoneNumbers))

\* RSVPService.getRSVPByEventAndPhone: the row, 0 for null
getRSVPByEventAndPhone(store, eventId, phoneNumber) ==
  IF IndexKey(eventId, phoneNumber) \in DOMAIN store.rsvpIndex
  THEN store.rsvpIndex[IndexKey(eventId, phoneNumber)]
  ELSE 0

\* a variant of accept / decline that reopens an RSVP that has a response
RespondOrReopen(rsvp, response, message) ==
  IF rsvp.response = "pending"
  THEN [rsvp EXCEPT !.response = response, !.message = message, !.respondedAt = "date"]
  ELSE [rsvp EXCEPT !.response = "pending", !.message = <<>>, !.respondedAt = "null"]

\* a variant of accept / decline that keeps the normalised text
RespondNormalised(rsvp, response, message) ==
  [rsvp EXCEPT !.response = response, !.message = Trim(ToLowerCase(message)),
               !.respondedAt = "date"]

\* RSVP.accept / RSVP.decline
Respond(rsvp, response, message) ==
  [rsvp EXCEPT !.response = response, !.message = message, !.respondedAt = "date"]

\* RSVPService.updateRSVPResponse: the rows afterwards
updateRSVPResponse(store, eventId, phoneNumber, response, contactName, message) ==
  LET row == getRSVPByEventAndPhone(store, eventId, phoneNumber)
  IN IF row = 0 THEN store.rsvps
     ELSE LET named == IF contactName # ""
                       THEN [store.rsvps[row] EXCEPT !.contactName = contactName]
                       ELSE store.rsvps[row]
          IN [store.rsvps EXCEPT ![row] =
                IF response \in {"accepted", "declined"}
                THEN Respond(named, response, message)
                ELSE named]

\* the rows of `rows` (in order) that satisfy Test
SelectRows(rows, Test(_)) ==
  LET F[i \in 0..Len(rows)] ==
        IF i = 0 THEN <<>>
        ELSE IF Test(i) THEN Append(F[i - 1], i) ELSE F[i - 1]
  IN F[Len(rows)]

\* RSVPService.getRSVPsForEvent: rows in Map order
getRSVPsForEvent(rows, eventId) ==
  LET Test(i) == rows[i].eventId = eventId
  IN SelectRows(rows, Test)

\* RSVPService.getPendingRSVPsForPhone: rows in Map order
getPendingRSVPsForPhone(rows, phoneNumber) ==
  LET Test(i) == rows[i].phoneNumber = phoneNumber /\ rows[i].response = "pending"
  IN SelectRows(rows, Test)

\* a variant of getRSVPStats with two buckets: accepted, and the rest
getRSVPStatsTwoWay(rows, eventId) ==
  LET list == getRSVPsForEvent(rows, eventId)
      Contact(r) == [phoneNumber |-> rows[r].phoneNumber,
                     contactName |-> rows[r].contactName,
                     respondedAt |-> rows[r].respondedAt]
      PendingContact(r) == [phoneNumber |-> rows[r].phoneNumber,
                            contactName |-> rows[r].contactName]
      F[i \in 0..Len(list)] ==
        IF i = 0
        THEN [ total |-> Len(list), accepted |-> 0, declined |-> 0, pending |-> 0,
               acceptedList |-> <<>>, declinedList |-> <<>>, pendingList |-> <<>> ]
        ELSE LET s == F[i - 1]
                 r == list[i]
             IN IF rows[r].response = "accepted"
                THEN [s EXCEPT !.accepted = @ + 1,
                               !.acceptedList = Append(@, Contact(r))]
                ELSE [s EXCEPT !.pending = @ + 1,
                               !.pendingList = Append(@, PendingContact(r))]
  IN F[Len(list)]

\* RSVPService.getRSVPStats: one pass over getRSVPsForEvent
getRSVPStats(rows, eventId) ==
  LET list == getRSVPsForEvent(rows, eventId)
      Contact(r) == [phoneNumber |-> rows[r].phoneNumber,
                     contactName |-> rows[r].contactName,
                     respondedAt |-> rows[r].respondedAt]
      PendingContact(r) == [phoneNumber |-> rows[r].phoneNumber,
                            contactName |-> rows[r].contactName]
      F[i \in 0..Len(list)] ==
        IF i = 0
        THEN [ total |-> Len(list), accepted |-> 0, declined |-> 0, pending |-> 0,
               acceptedList |-> <<>>, declinedList |-> <<>>, pendingList |-> <<>> ]
        ELSE LET s == F[i - 1]
                 r == list[i]
             IN IF rows[r].response = "accepted"
                THEN [s EXCEPT !.accepted = @ + 1,
                               !.acceptedList = Append(@, Contact(r))]
                ELSE IF rows[r].response = "declined"
                THEN [s EXCEPT !.declined = @ + 1,
                               !.declinedList = Append(@, Contact(r))]
                ELSE [s EXCEPT !.pending = @ + 1,
                               !.pendingList = Append(@, PendingContact(r))]
  IN F[Len(list)]

(***************************************************************************)
(* The Messaging Gateway is external: a send call returns a message id or  *)
(* fails, as the gateway chooses.  A request suspended in an await holds a *)
(* slot; a request that has returned holds none, and what it handed back   *)
(* is in `out` until the next step.                                        *)
(***************************************************************************)
Store == [rsvps |-> rsvps, rsvpIndex |-> rsvpIndex]

Idle == [pc |-> "idle"]

FreeSlots(slots) == {k \in DOMAIN slots : slots[k].pc = "idle"}

FirstFree(slots) == CHOOSE k \in FreeSlots(slots) : \A j \in FreeSlots(slots) : k <= j

(***************************************************************************)
(* EventController.sendInvitations, POST /events/:id/send.                 *)
(*   pc "sending": suspended in `await this.sendMessage` for invitee i     *)
(*   pc "delay":   suspended in `await this.delay(1000)` after invitee i   *)
(*   pc "done":    the response was written                                *)
(***************************************************************************)
\* the response data of lines 127-139
InvitationsSent(results) ==
  [ total      |-> Len(results),
    successful |-> Cardinality({k \in 1..Len(results) : results[k].success}),
    failed     |-> Cardinality({k \in 1..Len(results) : ~results[k].success}),
    results    |-> results ]

\* a request for event `event` (an object) under the id of the URL
NewSend(id, event, phoneNumbers) ==
  [ id |-> id, pc |-> "start", event |-> event, phoneNumbers |-> phoneNumbers,
    i |-> 1, attempts |-> <<>>, results |-> <<>> ]

\* WhatsAppService.sendMessage called for invitee op.i: the gateway call starts
StartSend(op) ==
  [op EXCEPT !.pc = "sending",
             !.attempts = Append(@, [phoneNumber |-> op.phoneNumbers[op.i],
                                     to |-> FormatPhoneNumber(op.phoneNumbers[op.i])])]

\* sendBulkInvitations at the head of its for-loop with invitee op.i next: the
\* request at its next await, or done when the loop is over
BulkLoop(op) ==
  IF op.i > Len(op.phoneNumbers) THEN [op EXCEPT !.pc = "done"] ELSE StartSend(op)

\* lines 124-140 once sendBulkInvitations has returned (op.pc = "done"), and
\* the bookkeeping of a request that is still suspended
Proceed(o, op) ==
  IF op.pc = "done"
  THEN /\ sends' = [sends EXCEPT ![o] = Idle]
       /\ eventObjs' = Collect(markEventAsSent(eventObjs[op.event].id), events, sends')
       /\ out' = [op |-> "sendInvitations", status |-> 200, request |-> op,
                  data |-> InvitationsSent(op.results)]
  ELSE /\ sends' = [sends EXCEPT ![o] = op]
       /\ out' = NoOut
       /\ UNCHANGED eventObjs

\* lines 94-103: the event does not exist
sendInvitationsNotFound(id) ==
  /\ id \notin DOMAIN events
  /\ out' = [op |-> "sendInvitations", status |-> 404, id |-> id]
  /\ UNCHANGED <<ready, eventObjs, events, rsvps, rsvpIndex, sends, replies>>

\* a variant of the readiness check that comes after the RSVPs are created
sendInvitationsNotReadyLate(id) ==
  /\ id \in DOMAIN events
  /\ ~ready
  /\ LET event == eventObjs[events[id]]
         created == createRSVPsForEvent(Store, event.id, event.invitees)
     IN /\ Len(rsvps) + Len(event.invitees) <= MaxRows
        /\ rsvps' = created.rsvps
        /\ rsvpIndex' = created.rsvpIndex
  /\ out' = [op |-> "sendInvitations", status |-> 503, id |-> id]
  /\ UNCHANGED <<ready, eventObjs, events, sends, replies>>

\* lines 105-112: the gateway is not ready
sendInvitationsNotReady(id) ==
  /\ id \in DOMAIN events
  /\ ~ready
  /\ out' = [op |-> "sendInvitations", status |-> 503, id |-> id]
  /\ UNCHANGED <<ready, eventObjs, events, rsvps, rsvpIndex, sends, replies>>

\* lines 114-122: create the RSVPs and enter the bulk send
sendInvitations(id) ==
  /\ id \in DOMAIN events
  /\ ready
  /\ FreeSlots(sends) # {}
  /\ LET event == eventObjs[events[id]]
         created == createRSVPsForEvent(Store, event.id, event.invitees)
     IN /\ Len(rsvps) + Len(event.invitees) <= MaxRows
        /\ rsvps' = created.rsvps
        /\ rsvpIndex' = created.rsvpIndex
        /\ Proceed(FirstFree(sends), BulkLoop(NewSend(id, events[id], event.invitees)))
  /\ UNCHANGED <<ready, events, replies>>

\* whatsappService.ts 140-148: the send returned a message id
sendOk(o) ==
  /\ sends[o].pc = "sending"
  /\ LET op == sends[o]
     IN Proceed(o, [op EXCEPT !.pc = "delay",
              !.results = Append(@, [phoneNumber |-> op.phoneNumbers[op.i],
                                     success |-> TRUE, messageId |-> "wamid"])])
  /\ UNCHANGED <<ready, events, rsvps, rsvpIndex, replies>>

\* a variant of the failed send that ends the loop
sendFailedEndsLoop(o) ==
  /\ sends[o].pc = "sending"
  /\ LET op == sends[o]
     IN Proceed(o, [op EXCEPT !.pc = "done",
              !.results = Append(@, [phoneNumber |-> op.phoneNumbers[op.i],
                                     success |-> FALSE,
                                     error |-> "Failed to send message"])])
  /\ UNCHANGED <<ready, events, rsvps, rsvpIndex, replies>>

\* whatsappService.ts 149-155: the send failed; the loop goes on at once
sendFailed(o) ==
  /\ sends[o].pc = "sending"
  /\ LET op == sends[o]
     IN Proceed(o, BulkLoop([op EXCEPT !.i = @ + 1,
              !.results = Append(@, [phoneNumber |-> op.phoneNumbers[op.i],
                                     success |-> FALSE,
                                     error |-> "Failed to send message"])]))
  /\ UNCHANGED <<ready, events, rsvps, rsvpIndex, replies>>

\* whatsappService.ts 148: the delay after a successful send elapsed
delayElapsed(o) ==
  /\ sends[o].pc = "delay"
  /\ Proceed(o, BulkLoop([sends[o] EXCEPT !.i = @ + 1]))
  /\ UNCHANGED <<ready, events, rsvps, rsvpIndex, replies>>

(***************************************************************************)
(* WebhookController.handleWhatsAppMessage.                                *)
(*   pc "confirming": suspended in `await whatsappService.sendMessage` for *)
(*                    the i-th RSVP of pendingRSVPs                        *)
(*   pc "done":       returned; promise is the state of the promise the    *)
(*                    caller holds, outcome the log line of the way out    *)
(***************************************************************************)
ContactNames == {"Dana"}

Texts == { <<"A","c","c","e","p","t">>, <<"N","o">>, <<"M","a","y","b","e">> }

MessageInputs ==
  [ phoneNumber : Phones, contactName : ContactNames, body : Texts, isGroup : BOOLEAN ]

NewReply(messageData) ==
  [ phoneNumber |-> messageData.phoneNumber, contactName |-> messageData.contactName,
    body |-> messageData.body, isGroup |-> messageData.isGroup,
    pc |-> "start", promise |-> "pending", outcome |-> "none",
    pendingRSVPs |-> <<>>, response |-> "null", i |-> 1, confirmations |-> <<>> ]

\* the handler returns normally
Return(rec, outcome) ==
  [rec EXCEPT !.pc = "done", !.promise = "fulfilled", !.outcome = outcome]

RECURSIVE ConfirmLoop(_, _)
\* lines 52-67 at the head of the for-loop with pendingRSVPs[rec.i] next, up
\* to the next await or to line 69: the rows and the invocation afterwards
ConfirmLoop(rows, rec) ==
  IF rec.i > Len(rec.pendingRSVPs)
  THEN [rsvps |-> rows, reply |-> Return(rec, "processed")]
  ELSE LET rsvp == rows[rec.pendingRSVPs[rec.i]]
           updated == updateRSVPResponse([rsvps |-> rows, rsvpIndex |-> rsvpIndex],
                        rsvp.eventId, rec.phoneNumber, rec.response,
                        rec.contactName, rec.body)
       IN IF rsvp.eventId \in DOMAIN events
          THEN [rsvps |-> updated,
                reply |-> [rec EXCEPT !.pc = "confirming",
                   !.confirmations = Append(@, [eventId |-> rsvp.eventId,
                                     to |-> FormatPhoneNumber(rec.phoneNumber)])]]
          ELSE ConfirmLoop(updated, [rec EXCEPT !.i = @ + 1])

\* a variant of the triage without the group check
TriageGroupsToo(rows, messageData) ==
  LET rec == NewReply(messageData)
      pendingRSVPs == getPendingRSVPsForPhone(rows, messageData.phoneNumber)
      response == parseRSVPResponse(messageData.body)
  IN IF Len(pendingRSVPs) = 0 THEN Return(rec, "no pending")
     ELSE IF response = "null"
          THEN Return([rec EXCEPT !.pendingRSVPs = pendingRSVPs], "not parsed")
     ELSE [rec EXCEPT !.pendingRSVPs = pendingRSVPs, !.response = response]

\* lines 24-50: the invocation up to the for-loop, or returned before it
Triage(rows, messageData) ==
  LET rec == NewReply(messageData)
      pendingRSVPs == getPendingRSVPsForPhone(rows, messageData.phoneNumber)
      response == parseRSVPResponse(messageData.body)
  IN IF messageData.isGroup THEN Return(rec, "group")
     ELSE IF Len(pendingRSVPs) = 0 THEN Return(rec, "no pending")
     ELSE IF response = "null"
          THEN Return([rec EXCEPT !.pendingRSVPs = pendingRSVPs], "not parsed")
     ELSE [rec EXCEPT !.pendingRSVPs = pendingRSVPs, !.response = response]

\* what is left of an invocation that returned: the message (but for the
\* contact name) and what was done about it
Returned(rec) ==
  [ phoneNumber |-> rec.phoneNumber, body |-> rec.body, isGroup |-> rec.isGroup,
    pendingRSVPs |-> rec.pendingRSVPs, response |-> rec.response,
    confirmations |-> rec.confirmations,
    promise |-> rec.promise, outcome |-> rec.outcome ]

\* the bookkeeping of an invocation: suspended in slot h, or returned
Settle(h, run) ==
  /\ rsvps' = run.rsvps
  /\ IF run.reply.pc = "done"
     THEN /\ replies' = [replies EXCEPT ![h] = Idle]
          /\ out' = [op |-> "handleWhatsAppMessage", reply |-> Returned(run.reply)]
     ELSE /\ replies' = [replies EXCEPT ![h] = run.reply]
          /\ out' = NoOut

\* the gateway delivers a message: lines 24-66 up to the first await
handleWhatsAppMessage(messageData) ==
  /\ FreeSlots(replies) # {}
  /\ LET rec == Triage(rsvps, messageData)
     IN Settle(FirstFree(replies),
               IF rec.pc = "done" THEN [rsvps |-> rsvps, reply |-> rec]
               ELSE ConfirmLoop(rsvps, rec))
  /\ UNCHANGED <<ready, eventObjs, events, rsvpIndex, sends>>

\* line 65 returned: the loop goes on with the next pending RSVP
confirmationSent(h) ==
  /\ replies[h].pc = "confirming"
  /\ Settle(h, ConfirmLoop(rsvps, [replies[h] EXCEPT !.i = @ + 1]))
  /\ UNCHANGED <<ready, eventObjs, events, rsvpIndex, sends>>

\* a variant of the failed confirmation that takes the transition back
confirmationFailedRollsBack(h) ==
  /\ replies[h].pc = "confirming"
  /\ LET rec == replies[h]
         rsvp == rsvps[rec.pendingRSVPs[rec.i]]
         row == getRSVPByEventAndPhone(Store, rsvp.eventId, rec.phoneNumber)
     IN Settle(h, [rsvps |-> [rsvps EXCEPT ![row] = RSVP(rsvp.eventId, rec.phoneNumber)],
                   reply |-> Return(rec, "caught")])
  /\ UNCHANGED <<ready, eventObjs, events, rsvpIndex, sends>>

\* line 65 threw: lines 70-72 catch and log, and the handler returns
confirmationFailed(h) ==
  /\ replies[h].pc = "confirming"
  /\ Settle(h, [rsvps |-> rsvps, reply |-> Return(replies[h], "caught")])
  /\ UNCHANGED <<ready, eventObjs, events, rsvpIndex, sends>>

(***************************************************************************)
(* The system.                                                             *)
(***************************************************************************)
Init ==
  /\ ready \in BOOLEAN
  /\ eventObjs = <<>>
  /\ events = <<>>
  /\ rsvps = <<>>
  /\ rsvpIndex = <<>>
  /\ sends = [o \in 1..MaxSending |-> Idle]
  /\ replies = [h \in 1..MaxHandling |-> Idle]
  /\ out = NoOut

\* the ids a request can name: those generated so far, and one unknown
RequestIds == 1..(Len(eventObjs) + 1)

Next ==
  \/ \E data \in EventInputs(ValidTitles, ValidDates, ValidTimes, Invitees, NoId) :
        createEvent(data)
  \/ \E id \in RequestIds, updates \in UpdateInputs : updateEvent(id, updates)
  \/ \E id \in RequestIds : deleteEvent(id)
  \/ \E id \in RequestIds : sendInvitationsNotFound(id)
  \/ \E id \in RequestIds : sendInvitationsNotReady(id)
  \/ \E id \in RequestIds : sendInvitations(id)
  \/ \E o \in DOMAIN sends : sendOk(o)
  \/ \E o \in DOMAIN sends : sendFailed(o)
  \/ \E o \in DOMAIN sends : delayElapsed(o)
  \/ \E messageData \in MessageInputs : handleWhatsAppMessage(messageData)
  \/ \E h \in DOMAIN replies : confirmationSent(h)
  \/ \E h \in DOMAIN replies : confirmationFailed(h)

Spec == Init /\ [][Next]_vars

(***************************************************************************)
(* The end-to-end scenario: one event with two distinct invitees is        *)
(* created, its invitations are sent, and when sendInvitations has         *)
(* responded the first invitee replies "Accept".                           *)
(***************************************************************************)
Barbecue == <<"B","B","Q">>

\* the recipients of the scenario: one is written with a "+"
E2EPhones == Phones \cup { <<"+","3">> }

TwoInvitees ==
  { [invitees |-> l] : l \in { p \in E2EPhones \X E2EPhones : p[1] # p[2] } }

InitE2E == Init /\ ready

NextE2E ==
  \/ /\ eventObjs = <<>>
     /\ \E data \in EventInputs({[title |-> Gala], [title |-> Barbecue]},
                                ValidDates, ValidTimes, TwoInvitees, NoId) :
          createEvent(data)
  \/ /\ out.op = "createEvent"
     /\ sendInvitations(out.id)
  \/ \E o \in DOMAIN sends : sendOk(o)
  \/ \E o \in DOMAIN sends : sendFailed(o)
  \/ \E o \in DOMAIN sends : delayElapsed(o)
  \/ /\ out.op = "sendInvitations"
     /\ \E contactName \in {"", "Dana"} :
          handleWhatsAppMessage([ phoneNumber |-> out.request.phoneNumbers[1],
                                  contactName |-> contactName,
                                  body |-> <<"A","c","c","e","p","t">>,
                                  isGroup |-> FALSE ])
  \/ \E h \in DOMAIN replies : confirmationSent(h)
  \/ \E h \in DOMAIN replies : confirmationFailed(h)

SpecE2E == InitE2E /\ [][NextE2E]_vars

\* the reply of the scenario is being handled (a confirmation send is in
\* flight) or has been handled
E2EReplied ==
  \/ \E h \in DOMAIN replies : replies[h].pc # "idle"
  \/ out.op = "handleWhatsAppMessage"

\* the confirmation sends attempted for the reply of the scenario
E2EConfirmations ==
  IF out.op = "handleWhatsAppMessage" THEN out.reply.confirmations
  ELSE replies[CHOOSE h \in DOMAIN replies : replies[h].pc # "idle"].confirmations

\* C1: after create([A, B]), sendInvitations and one non-group reply "Accept"
\* from A: A's RSVP is accepted, a confirmation send to A was attempted, B's
\* RSVP is pending, and the statistics are total 2, accepted 1, declined 0,
\* pending 1.
C1_EndToEnd ==
  E2EReplied =>
    LET id == eventObjs[1].id
        A == eventObjs[1].invitees[1]
        B == eventObjs[1].invitees[2]
        stats == getRSVPStats(rsvps, id)
    IN /\ rsvps[getRSVPByEventAndPhone(Store, id, A)].response = "accepted"
       /\ \E k \in DOMAIN E2EConfirmations :
            /\ E2EConfirmations[k].eventId = id
            /\ E2EConfirmations[k].to = FormatPhoneNumber(A)
       /\ rsvps[getRSVPByEventAndPhone(Store, id, B)].response = "pending"
       /\ stats.total = 2 /\ stats.accepted = 1
       /\ stats.declined = 0 /\ stats.pending = 1

\* the scenario has run to its end: the handler returned
C1_Witness ==
  /\ out.op = "handleWhatsAppMessage"
  /\ out.reply.outcome = "processed"
  /\ Len(rsvps) = 2
  /\ rsvps[1].response = "accepted"
  /\ rsvps[2].response = "pending"

(***************************************************************************)
(* Properties of the reply path.                                           *)
(***************************************************************************)
Resolved == {"accepted", "declined"}

HandlerReturned == out.op = "handleWhatsAppMessage"

\* C2: an accepted or declined RSVP never has its response changed again.
C2_ResolvedIsTerminal ==
  [][\A r \in DOMAIN rsvps :
       rsvps[r].response \in Resolved => rsvps'[r].response = rsvps[r].response]_vars

\* C3: when the handler has run its loop to the end (every confirmation send
\* succeeded), every RSVP that pendingForRecipient returned at its start has
\* the classified outcome.
C3_EveryPendingResolved ==
  (HandlerReturned /\ out.reply.outcome = "processed") =>
    \A k \in DOMAIN out.reply.pendingRSVPs :
      rsvps[out.reply.pendingRSVPs[k]].response = out.reply.response

\* C4: when the handler returns after a recognised reply, with or without a
\* failed confirmation send, the RSVP of the sender is transitioned for
\* every event the sender was pending in, and a confirmation send was
\* attempted for each of these events that exists.
C4_FailureDoesNotAbortLoop ==
  (HandlerReturned /\ out.reply.outcome \in {"processed", "caught"}) =>
    \A k \in DOMAIN out.reply.pendingRSVPs :
      LET eventId == rsvps[out.reply.pendingRSVPs[k]].eventId
      IN /\ \E r \in DOMAIN rsvps : /\ rsvps[r].eventId = eventId
                                    /\ rsvps[r].phoneNumber = out.reply.phoneNumber
                                    /\ rsvps[r].response # "pending"
         /\ eventId \in DOMAIN events =>
              \E c \in DOMAIN out.reply.confirmations :
                out.reply.confirmations[c].eventId = eventId

\* C5: the step in which a confirmation send fails changes no RSVP: the
\* sender's RSVP for the event stays accepted or declined with its message
\* and respondedAt set; and the handler's promise is fulfilled, not rejected.
C5_FailedConfirmationKeepsTransition ==
  [][\A h \in DOMAIN replies :
       (replies[h].pc = "confirming" /\ replies'[h].pc = "idle") =>
         /\ out'.op = "handleWhatsAppMessage"
         /\ out'.reply.promise = "fulfilled"
         /\ out'.reply.outcome = "caught" =>
              LET rec == replies[h]
                  rsvp == rsvps[rec.pendingRSVPs[rec.i]]
              IN /\ rsvps' = rsvps
                 /\ \E r \in DOMAIN rsvps' :
                      /\ rsvps'[r].eventId = rsvp.eventId
                      /\ rsvps'[r].phoneNumber = rec.phoneNumber
                      /\ rsvps'[r].response \in Resolved
                      /\ rsvps'[r].message # <<>>
                      /\ rsvps'[r].respondedAt # "null"]_vars

\* a confirmation send failed for an RSVP that was accepted
C5_Witness ==
  /\ HandlerReturned
  /\ out.reply.outcome = "caught"
  /\ out.reply.response = "accepted"
  /\ \E r \in DOMAIN rsvps :
       rsvps[r].response = "accepted" /\ rsvps[r].phoneNumber = out.reply.phoneNumber

\* C9: a message that is a group message, whose sender has no pending RSVP,
\* or whose text is not recognised makes the handler return at once with no
\* RSVP, no event and no request changed and no confirmation sent; and only
\* a message that is none of the three starts the loop.
C9_NoOpCases ==
  [][ /\ (out'.op = "handleWhatsAppMessage" /\ replies' = replies) =>
           LET m == out'.reply
           IN (\/ m.isGroup
               \/ Len(getPendingRSVPsForPhone(rsvps, m.phoneNumber)) = 0
               \/ parseRSVPResponse(m.body) = "null") =>
                /\ UNCHANGED <<eventObjs, events, rsvps, rsvpIndex, sends>>
                /\ m.confirmations = <<>>
                /\ m.outcome \in {"group", "no pending", "not parsed"}
      /\ \A h \in DOMAIN replies :
           (replies[h].pc = "idle" /\ replies'[h].pc # "idle") =>
             /\ ~replies'[h].isGroup
             /\ Len(getPendingRSVPsForPhone(rsvps, replies'[h].phoneNumber)) > 0
             /\ parseRSVPResponse(replies'[h].body) # "null" ]_vars

\* an unrecognised text left the sender's pending RSVP pending
C9_Witness ==
  /\ HandlerReturned
  /\ out.reply.outcome = "not parsed"
  /\ ~out.reply.isGroup
  /\ Len(getPendingRSVPsForPhone(rsvps, out.reply.phoneNumber)) > 0

(***************************************************************************)
(* Properties of sendInvitations.                                          *)
(***************************************************************************)
InvitationsResponded == out.op = "sendInvitations"

PhonesOf(list) == [k \in DOMAIN list |-> list[k].phoneNumber]

\* a result entry: success with a messageId, or failure with an error
WellFormedResult(result) ==
  \/ result.success /\ DOMAIN result = {"phoneNumber", "success", "messageId"}
  \/ ~result.success /\ DOMAIN result = {"phoneNumber", "success", "error"}

\* C6: whatever sends fail, the sends attempted so far are one per invitee
\* in list order, and the response holds one result per invitee in that
\* order with successful + failed = total = the number of invitees.
C6_OneSendAndResultPerInvitee ==
  /\ \A o \in DOMAIN sends : sends[o].pc # "idle" =>
       LET op == sends[o]
       IN /\ op.i \in 1..Len(op.phoneNumbers)
          /\ PhonesOf(op.attempts) = SubSeq(op.phoneNumbers, 1, op.i)
          /\ PhonesOf(op.results) =
               SubSeq(op.phoneNumbers, 1, IF op.pc = "sending" THEN op.i - 1 ELSE op.i)
  /\ (InvitationsResponded /\ out.status = 200) =>
       LET invitees == out.request.phoneNumbers
           data == out.data
       IN /\ PhonesOf(out.request.attempts) = invitees
          /\ PhonesOf(data.results) = invitees
          /\ \A k \in DOMAIN data.results : WellFormedResult(data.results[k])
          /\ data.successful =
               Cardinality({k \in DOMAIN data.results : data.results[k].success})
          /\ data.successful + data.failed = data.total
          /\ data.total = Len(invitees)

\* two distinct invitees, the first send failed and the second succeeded
C6_Witness ==
  /\ InvitationsResponded
  /\ out.status = 200
  /\ out.data.total = 2
  /\ out.request.phoneNumbers[1] # out.request.phoneNumbers[2]
  /\ ~out.data.results[1].success
  /\ out.data.results[2].success

\* C7: a request for an unknown id is answered 404, a request for a known
\* id while the gateway is not ready 503 (unknown id and gateway not ready:
\* 404); neither creates an RSVP, starts a send or changes an event; and a
\* request that gets past the checks names a stored event with the gateway
\* ready.
C7_ChecksAbortWithoutEffect ==
  [][ /\ (out'.op = "sendInvitations" /\ out'.status # 200) =>
           /\ out'.status \in {404, 503}
           /\ out'.status = 404 <=> out'.id \notin DOMAIN events
           /\ out'.status = 503 <=> (out'.id \in DOMAIN events /\ ~ready)
           /\ UNCHANGED <<eventObjs, events, rsvps, rsvpIndex, sends, replies>>
      /\ \A o \in DOMAIN sends :
           (sends[o].pc = "idle" /\ sends'[o].pc # "idle") =>
             /\ ready
             /\ sends'[o].id \in DOMAIN events
      /\ Len(rsvps') > Len(rsvps) =>
           \E o \in DOMAIN sends : sends[o].pc = "idle" /\ sends'[o].pc # "idle" ]_vars

\* an unknown id while the gateway is not ready, with an event stored
C7_Witness ==
  /\ InvitationsResponded
  /\ out.status = 404
  /\ ~ready
  /\ DOMAIN events # {}

CountPhone(list, phoneNumber) ==
  Cardinality({k \in DOMAIN list : list[k].phoneNumber = phoneNumber})

\* C10: for every event id the statistics partition the event's rows: the
\* three counts add up to the total, each count is the length of its list,
\* and every row of the event is in the list of its response and in no other.
C10_StatsPartition ==
  \A id \in 1..(MaxEvents + 1) :
    LET stats == getRSVPStats(rsvps, id)
        rowsOf == {r \in DOMAIN rsvps : rsvps[r].eventId = id}
        With(response, phoneNumber) ==
          {r \in rowsOf : /\ rsvps[r].response = response
                          /\ rsvps[r].phoneNumber = phoneNumber}
    IN /\ stats.total = Cardinality(rowsOf)
       /\ stats.accepted + stats.declined + stats.pending = stats.total
       /\ stats.accepted = Len(stats.acceptedList)
       /\ stats.declined = Len(stats.declinedList)
       /\ stats.pending = Len(stats.pendingList)
       /\ \A p \in Phones :
            /\ CountPhone(stats.acceptedList, p) = Cardinality(With("accepted", p))
            /\ CountPhone(stats.declinedList, p) = Cardinality(With("declined", p))
            /\ CountPhone(stats.pendingList, p) = Cardinality(With("pending", p))

\* an event with one invitee accepted and the other declined
C10_Witness ==
  \E id \in 1..MaxEvents :
    /\ getRSVPStats(rsvps, id).accepted = 1
    /\ getRSVPStats(rsvps, id).declined = 1
    /\ getRSVPStats(rsvps, id).total = 2

(***************************************************************************)
(* Properties of the rows of the RSVP store.                               *)
(***************************************************************************)
\* the rows of the pair (eventId, phoneNumber)
RowsOfPair(rows, eventId, phoneNumber) ==
  {r \in DOMAIN rows : rows[r].eventId = eventId /\ rows[r].phoneNumber = phoneNumber}

\* C11: the store holds at most one RSVP row for each pair of an event id
\* and a phone number.
C11_OneRowPerPair ==
  \A r1, r2 \in DOMAIN rsvps :
    (rsvps[r1].eventId = rsvps[r2].eventId /\ rsvps[r1].phoneNumber = rsvps[r2].phoneNumber)
      => r1 = r2

\* the store after the step
StoreAfter == [rsvps |-> rsvps', rsvpIndex |-> rsvpIndex']

\* C12: a step that creates the RSVPs of a sendInvitations request adds one
\* row per recipient of the list, each pending, and each of the added rows is
\* the row getRSVPByEventAndPhone returns for its event id and phone number.
C12_CreatedRowsRetrievable ==
  [][\A o \in DOMAIN sends :
       (sends[o].pc = "idle" /\ sends'[o].pc # "idle") =>
         LET recipients == sends'[o].phoneNumbers
             created == (Len(rsvps) + 1)..Len(rsvps')
         IN /\ Len(rsvps') = Len(rsvps) + Len(recipients)
            /\ \A r \in created :
                 /\ rsvps'[r].response = "pending"
                 /\ rsvps'[r].phoneNumber = recipients[r - Len(rsvps)]
                 /\ getRSVPByEventAndPhone(StoreAfter, rsvps'[r].eventId,
                                           rsvps'[r].phoneNumber) = r]_vars

\* the last of a set of rows
LastRow(rows) == CHOOSE r \in rows : \A q \in rows : q <= r

\* C13: creation is not idempotent.  No step removes a row or changes its
\* pair; a sendInvitations request for a recipient whose pair has a row adds
\* another row for the pair and points the index at the new one; and after
\* every step getRSVPByEventAndPhone returns the last row of a pair, so
\* never again a row that has a later one.
C13_CreationNotIdempotent ==
  [][ /\ \A r \in DOMAIN rsvps :
           /\ r \in DOMAIN rsvps'
           /\ rsvps'[r].eventId = rsvps[r].eventId
           /\ rsvps'[r].phoneNumber = rsvps[r].phoneNumber
      /\ \A o \in DOMAIN sends :
           (sends[o].pc = "idle" /\ sends'[o].pc # "idle") =>
             LET eventId == eventObjs[sends'[o].event].id
             IN \A k \in DOMAIN sends'[o].phoneNumbers :
                  LET phoneNumber == sends'[o].phoneNumbers[k]
                  IN RowsOfPair(rsvps, eventId, phoneNumber) # {} =>
                       /\ Cardinality(RowsOfPair(rsvps', eventId, phoneNumber))
                            > Cardinality(RowsOfPair(rsvps, eventId, phoneNumber))
                       /\ getRSVPByEventAndPhone(StoreAfter, eventId, phoneNumber)
                            > Len(rsvps)
      /\ \A r \in DOMAIN rsvps' :
           getRSVPByEventAndPhone(StoreAfter, rsvps'[r].eventId, rsvps'[r].phoneNumber)
             = LastRow(RowsOfPair(rsvps', rsvps'[r].eventId, rsvps'[r].phoneNumber)) ]_vars

\* the invitations of an event with one invitee were sent twice
C13_Witness ==
  /\ Len(rsvps) = 2
  /\ rsvps[1].eventId = rsvps[2].eventId
  /\ rsvps[1].phoneNumber = rsvps[2].phoneNumber
  /\ rsvps[1].eventId \in DOMAIN events
  /\ Len(eventObjs[events[rsvps[1].eventId]].invitees) = 1
  /\ getRSVPByEventAndPhone(Store, rsvps[1].eventId, rsvps[1].phoneNumber) = 2

\* the elements of a sequence
Range(list) == {list[k] : k \in DOMAIN list}

\* C14: a step of the reply handler that calls updateRSVPResponse once, with
\* response accepted, for a pair that has an RSVP: afterwards that RSVP is
\* not among the pending RSVPs of the phone number, and the statistics of the
\* event count one more accepted and one fewer pending than before.
C14_AcceptMovesOneFromPending ==
  [][\A h \in DOMAIN replies :
       (/\ replies'[h].pc = "confirming"
        /\ \/ replies[h].pc = "idle" /\ replies'[h].i = 1
           \/ replies[h].pc = "confirming" /\ replies'[h].i = replies[h].i + 1
        /\ replies'[h].response = "accepted") =>
         LET rec == replies'[h]
             eventId == rsvps[rec.pendingRSVPs[rec.i]].eventId
             row == getRSVPByEventAndPhone(Store, eventId, rec.phoneNumber)
         IN /\ row # 0
            /\ row \notin Range(getPendingRSVPsForPhone(rsvps', rec.phoneNumber))
            /\ getRSVPStats(rsvps', eventId).accepted
                 = getRSVPStats(rsvps, eventId).accepted + 1
            /\ getRSVPStats(rsvps', eventId).pending
                 = getRSVPStats(rsvps, eventId).pending - 1]_vars

\* C15: no step takes an RSVP that is accepted or declined back to pending.
C15_NeverBackToPending ==
  [][\A r \in DOMAIN rsvps :
       rsvps[r].response \in Resolved =>
         /\ r \in DOMAIN rsvps'
         /\ rsvps'[r].response \in Resolved]_vars

\* a reply was processed for a phone number that has an RSVP with the other
\* response from an earlier reply
C15_Witness ==
  /\ HandlerReturned
  /\ out.reply.outcome = "processed"
  /\ \E r \in DOMAIN rsvps :
       /\ rsvps[r].phoneNumber = out.reply.phoneNumber
       /\ rsvps[r].response \in Resolved
       /\ rsvps[r].response # out.reply.response

(***************************************************************************)
(* The classifier on its own: parseRSVPResponse is called with a reply     *)
(* text, and `out` holds the text and the verdict.                         *)
(***************************************************************************)
\* the reply texts of the examples
YesIllBeThere == <<"Y","e","s",","," ","I","'","l","l"," ","b","e"," ","t","h","e","r","e","!">>
SorryCantMakeIt == <<"s","o","r","r","y",","," ","c","a","n","'","t"," ","m","a","k","e"," ","i","t">>
MaybeNextTime == <<"m","a","y","b","e"," ","n","e","x","t"," ","t","i","m","e">>

\* the phrases the documentation lists as accepted
DocumentedAccept == {
  <<"a","c","c","e","p","t">>,
  <<"a","c","c","e","p","t","e","d">>,
  <<"a","c","c","e","p","t","i","n","g">>,
  <<"y","e","s">>,
  <<"y","e","a","h">>,
  <<"y","e","p">>,
  <<"y","u","p">>,
  <<"s","u","r","e">>,
  <<"s","u","r","e","l","y">>,
  <<"o","k">>,
  <<"o","k","a","y">>,
  <<"c","o","n","f","i","r","m">>,
  <<"c","o","n","f","i","r","m","e","d">>,
  <<"a","t","t","e","n","d","i","n","g">>,
  <<"w","i","l","l"," ","a","t","t","e","n","d">>,
  <<"i","'","l","l"," ","b","e"," ","t","h","e","r","e">>,
  <<"i","'","l","l"," ","c","o","m","e">>,
  <<"c","o","u","n","t"," ","m","e"," ","i","n">>,
  <<CheckMark>>,
  <<ThumbsUp>> }

\* the phrases the documentation lists as declined
DocumentedDecline == {
  <<"d","e","c","l","i","n","e">>,
  <<"d","e","c","l","i","n","e","d">>,
  <<"n","o">>,
  <<"n","o","p","e">>,
  <<"n","a","h">>,
  <<"s","o","r","r","y">>,
  <<"a","p","o","l","o","g","i","e","s">>,
  <<"c","a","n","n","o","t">>,
  <<"c","a","n","'","t">>,
  <<"c","a","n","t">>,
  <<"u","n","a","b","l","e">>,
  <<"n","o","t"," ","a","t","t","e","n","d","i","n","g">>,
  <<"w","o","n","'","t"," ","a","t","t","e","n","d">>,
  <<"w","o","n","'","t"," ","b","e"," ","t","h","e","r","e">>,
  <<"c","a","n","'","t"," ","m","a","k","e"," ","i","t">>,
  <<"c","o","u","n","t"," ","m","e"," ","o","u","t">>,
  <<CrossMark>>,
  <<ThumbsDown>> }

\* String.prototype.toUpperCase, one character
ToUpperChar(c) ==
  IF \E i \in 1..Len(LowerCase) : LowerCase[i] = c
  THEN UpperCase[CHOOSE i \in 1..Len(LowerCase) : LowerCase[i] = c]
  ELSE c

\* a reply text as a sender may write it: as it is, in capitals, or with
\* blanks around it
Written(text) ==
  { text, [i \in 1..Len(text) |-> ToUpperChar(text[i])], <<" ">> \o text \o <<" ", "\n">> }

ReplyTexts ==
  UNION { Written(text) : text \in DocumentedAccept \cup DocumentedDecline
                                   \cup {YesIllBeThere, SorryCantMakeIt, MaybeNextTime} }

\* WebhookController.parseRSVPResponse called with `text`
parseRSVPResponseCalled(text) ==
  /\ out' = [op |-> "parseRSVPResponse", text |-> text, response |-> parseRSVPResponse(text)]
  /\ UNCHANGED <<ready, eventObjs, events, rsvps, rsvpIndex, sends, replies>>

NextClassify == \E text \in ReplyTexts : parseRSVPResponseCalled(text)

SpecClassify == Init /\ [][NextClassify]_vars

Classified == out.op = "parseRSVPResponse"

\* C16: the classifier gives every reply text one of its three verdicts, the
\* same one whenever it is asked, and on the five example texts: accepted,
\* declined, unrecognized, accepted (check mark), declined (thumbs down).
C16_ClassifyExamples ==
  Classified =>
    /\ out.response \in {"accepted", "declined", "null"}
    /\ out.response = parseRSVPResponse(out.text)
    /\ out.text = YesIllBeThere => out.response = "accepted"
    /\ out.text = SorryCantMakeIt => out.response = "declined"
    /\ out.text = MaybeNextTime => out.response = "null"
    /\ out.text = <<CheckMark>> => out.response = "accepted"
    /\ out.text = <<ThumbsDown>> => out.response = "declined"

\* the text that is a greeting of acceptance was classified
C16_Witness == Classified /\ out.text = YesIllBeThere /\ out.response = "accepted"

\* C17: every phrase of the documented accept set, sent alone, is classified
\* as accepted.
C17_DocumentedAcceptAccepted ==
  (Classified /\ out.text \in DocumentedAccept) => out.response = "accepted"

\* C18: every phrase of the documented decline set, sent alone, is
\* classified as declined.
C18_DocumentedDeclineDeclined ==
  (Classified /\ out.text \in DocumentedDecline) => out.response = "declined"

(***************************************************************************)
(* Creation on its own: POST /events with request bodies that leave out    *)
(* or blank any of the fields, and with an id of the caller's.             *)
(***************************************************************************)
\* an id of the caller's; generateId never yields it
CallerId == 9

Absent == <<>>

CreateTitles == { Absent, [title |-> <<>>], [title |-> <<" ", " ">>], [title |-> Gala] }
CreateDates  == { Absent, [date |-> ""], [date |-> "2026-12-31"] }
CreateTimes  == { Absent, [time |-> "18:00"] }
CreateLists  == { Absent, [invitees |-> <<>>], [invitees |-> << <<"1">> >>] }
CreateStatus == { Absent, [status |-> "sent"] }

\* the ids a request body can hold: none, the empty one, one of the
\* caller's, or the id of a stored event
CreateIds ==
  { Absent } \cup { [id |-> k] : k \in {EmptyId, CallerId} \cup DOMAIN events }

NextCreate ==
  \E data \in EventInputs(CreateTitles, CreateDates, CreateTimes, CreateLists, CreateIds),
     status \in CreateStatus :
       createEvent(data @@ status)

SpecCreate == Init /\ [][NextCreate]_vars

\* a text of nothing but white space
Blank(text) == \A i \in DOMAIN text : text[i] \in WhiteSpace

\* the messages of the rules a request body violates
Violated(data) ==
  { m \in { "Event title is required", "Event date is required",
            "Event time is required", "At least one invitee is required" } :
      \/ m = "Event title is required"
           /\ ("title" \notin DOMAIN data \/ Blank(data.title))
      \/ m = "Event date is required"
           /\ ("date" \notin DOMAIN data \/ data.date = "")
      \/ m = "Event time is required"
           /\ ("time" \notin DOMAIN data \/ data.time = "")
      \/ m = "At least one invitee is required"
           /\ ("invitees" \notin DOMAIN data \/ data.invitees = <<>>) }

\* C19: a creation whose input violates a rule is answered with an error
\* that lists the message of every violated rule, each once, and changes no
\* stored event.
C19_EveryViolationListed ==
  [][(out'.op = "createEvent" /\ Violated(out'.request) # {}) =>
       /\ out'.status = 400
       /\ Range(out'.message) = Violated(out'.request)
       /\ Len(out'.message) = Cardinality(Violated(out'.request))
       /\ UNCHANGED <<eventObjs, events>>]_vars

\* an input that violates all four rules was refused with an event stored
C19_Witness ==
  /\ out.op = "createEvent"
  /\ out.status = 400
  /\ Len(out.message) = 4
  /\ DOMAIN events # {}

\* C20: a creation whose input violates no rule returns an id that is not
\* empty, and getEvent of that id gives the object just constructed, with
\* the fields of the input (a generated id and status draft where the input
\* has none).
C20_CreateThenGet ==
  [][(out'.op = "createEvent" /\ Violated(out'.request) = {}) =>
       LET data == out'.request IN
       /\ out'.status = 201
       /\ out'.id # EmptyId
       /\ out'.id \in DOMAIN events'
       /\ events'[out'.id] = Len(eventObjs')
       /\ Len(eventObjs') = Len(eventObjs) + 1
       /\ LET got == eventObjs'[events'[out'.id]]
          IN /\ got.id = out'.id
             /\ ("id" \in DOMAIN data /\ data.id # EmptyId) => got.id = data.id
             /\ ("id" \notin DOMAIN data \/ data.id = EmptyId) => got.id \notin DOMAIN events
             /\ got.title = data.title
             /\ got.date = data.date
             /\ got.time = data.time
             /\ got.invitees = data.invitees
             /\ got.status = IF "status" \in DOMAIN data THEN data.status ELSE "draft"]_vars

\* an event was created under the id of a stored event, which it replaced
C20_Witness ==
  /\ out.op = "createEvent"
  /\ out.status = 201
  /\ "id" \in DOMAIN out.request
  /\ Len(eventObjs) = 2
  /\ eventObjs[1] = Garbage
  /\ events[out.id] = 2

(***************************************************************************)
(* The Event Store on its own: creations of valid events (with or without  *)
(* an id in the request body), updates with partial fields, and deletions. *)
(***************************************************************************)
\* request bodies of PUT /events/:id: any part of the fields
StoreUpdates == { [id |-> CallerId], [status |-> "sent"], [title |-> Barbecue] }

NextStore ==
  \/ \E data \in EventInputs(ValidTitles, ValidDates, ValidTimes,
                             { [invitees |-> << <<"1">> >>] }, CreateIds) :
       createEvent(data)
  \/ \E id \in DOMAIN events, updates \in StoreUpdates : updateEvent(id, updates)
  \/ \E id \in DOMAIN events : deleteEvent(id)

SpecStore == Init /\ [][NextStore]_vars

\* C21: after every step each stored event is held under the key that is
\* its own id, no step changes the id of an Event object, and a creation
\* leaves every event that was stored where it was.
C21_IdUniqueAndImmutable ==
  [][ /\ \A k \in DOMAIN events' : eventObjs'[events'[k]].id = k
      /\ \A r \in DOMAIN eventObjs :
           (eventObjs[r] # Garbage /\ eventObjs'[r] # Garbage) =>
             eventObjs'[r].id = eventObjs[r].id
      /\ Len(eventObjs') > Len(eventObjs) =>
           \A k \in DOMAIN events : k \in DOMAIN events' /\ events'[k] = events[k] ]_vars

(***************************************************************************)
(* Concurrent replies: the gateway delivers a reply while the handler of   *)
(* an earlier one is suspended in its confirmation send.  Every invitee    *)
(* list is free of duplicates and every event is sent at most once.        *)
(***************************************************************************)
InitRace ==
  /\ ready = TRUE
  /\ eventObjs = <<>>
  /\ events = <<>>
  /\ rsvps = <<>>
  /\ rsvpIndex = <<>>
  /\ sends = [o \in 1..MaxSending |-> Idle]
  /\ replies = [h \in 1..(MaxHandling + 1) |-> Idle]
  /\ out = NoOut

\* the invitations of the event were never requested
NeverSent(id) == \A r \in DOMAIN rsvps : rsvps[r].eventId # id

\* the recognised replies of the one invitee
RaceReplies ==
  [ phoneNumber : { <<"1">> }, contactName : ContactNames,
    body : { <<"A","c","c","e","p","t">>, <<"N","o">> }, isGroup : {FALSE} ]

NextRace ==
  \/ \E data \in EventInputs(ValidTitles, ValidDates, ValidTimes,
                             { [invitees |-> << <<"1">> >>] }, NoId) :
       createEvent(data)
  \/ \E id \in DOMAIN events : NeverSent(id) /\ sendInvitations(id)
  \/ \E o \in DOMAIN sends : sendOk(o)
  \/ \E o \in DOMAIN sends : sendFailed(o)
  \/ \E o \in DOMAIN sends : delayElapsed(o)
  \/ \E messageData \in RaceReplies : handleWhatsAppMessage(messageData)
  \/ \E h \in DOMAIN replies : confirmationSent(h)
  \/ \E h \in DOMAIN replies : confirmationFailed(h)

SpecRace == InitRace /\ [][NextRace]_vars

\* C22: with replies handled concurrently, no step changes an RSVP that is
\* accepted or declined: it keeps the outcome of the reply that transitioned
\* it first.
C22_FirstReplyWins ==
  [][\A r \in DOMAIN rsvps :
       rsvps[r].response \in Resolved => rsvps'[r] = rsvps[r]]_vars

(***************************************************************************)
(* Properties of the bulk-send loop.                                       *)
(***************************************************************************)
\* C23: a request in its bulk send starts the send for a next invitee only
\* out of the delay: not after a failed attempt without the delay in between.
C23_DelayAfterEveryAttempt ==
  [][\A o \in DOMAIN sends :
       (/\ sends[o].pc # "idle"
        /\ sends'[o].pc # "idle"
        /\ Len(sends'[o].attempts) > Len(sends[o].attempts)) =>
         sends[o].pc = "delay"]_vars

\* the requests that are suspended in their bulk send
Sending == {o \in DOMAIN sends : sends[o].pc # "idle"}

\* C24: while a request is in its bulk send, every invitee of its list has
\* an RSVP row for the event; and when the handler of a recognised reply
\* returns, the sender's RSVP is transitioned for every event that is still
\* in its bulk send and for which the handler found the sender pending.
C24_RowsBeforeFirstSend ==
  /\ \A o \in Sending :
       \A k \in DOMAIN sends[o].phoneNumbers :
         RowsOfPair(rsvps, eventObjs[sends[o].event].id, sends[o].phoneNumbers[k]) # {}
  /\ (HandlerReturned /\ out.reply.outcome \in {"processed", "caught"}) =>
       \A o \in Sending :
         \A k \in DOMAIN out.reply.pendingRSVPs :
           rsvps[out.reply.pendingRSVPs[k]].eventId = eventObjs[sends[o].event].id =>
             \E r \in RowsOfPair(rsvps, eventObjs[sends[o].event].id, out.reply.phoneNumber) :
               rsvps[r].response # "pending"

\* C25: deleting an event leaves the RSVP rows and the index as they are, a
\* confirmation is only sent for an event that is stored, and when the
\* handler of a recognised reply returns, the sender's RSVP is transitioned
\* for every deleted event for which the handler found the sender pending.
C25_DeleteDoesNotCascade ==
  [][ /\ (\E k \in DOMAIN events : k \notin DOMAIN events') =>
           (rsvps' = rsvps /\ rsvpIndex' = rsvpIndex)
      /\ \A h \in DOMAIN replies' :
           (/\ replies'[h].pc = "confirming"
            /\ Len(replies'[h].confirmations) >
                 (IF replies[h].pc = "confirming" THEN Len(replies[h].confirmations) ELSE 0)) =>
             replies'[h].confirmations[Len(replies'[h].confirmations)].eventId \in DOMAIN events
      /\ (out'.op = "handleWhatsAppMessage" /\ out'.reply.outcome \in {"processed", "caught"}) =>
           \A k \in DOMAIN out'.reply.pendingRSVPs :
             rsvps'[out'.reply.pendingRSVPs[k]].eventId \notin DOMAIN events' =>
               \E r \in RowsOfPair(rsvps', rsvps'[out'.reply.pendingRSVPs[k]].eventId,
                                   out'.reply.phoneNumber) :
                 rsvps'[r].response # "pending" ]_vars

(***************************************************************************)
(* The classifier against its reference.                                   *)
(***************************************************************************)
\* the text has `p` as a substring
Contains(t, p) ==
  \E i \in 1..(Len(t) - Len(p) + 1) : SubSeq(t, i, i + Len(p) - 1) = p

\* some pattern of the list is a substring of the text
ContainsAny(t, patterns) == \E p \in Range(patterns) : Contains(t, p)

\* the reference verdict of a text
ReferenceVerdict(text) ==
  LET t == Trim(ToLowerCase(text))
  IN CASE ContainsAny(t, acceptPatterns) -> "accepted"
       [] ~ContainsAny(t, acceptPatterns) /\ ContainsAny(t, declinePatterns) -> "declined"
       [] OTHER -> "null"

ActingBodies ==
  {replies[h].body : h \in {k \in DOMAIN replies : replies[k].pc # "idle"}}
    \cup {replies'[h].body : h \in {k \in DOMAIN replies' : replies'[k].pc # "idle"}}
    \cup (IF out'.op = "handleWhatsAppMessage" THEN {out'.reply.body} ELSE {})

\* C28: a row is pending exactly when its respondedAt is null and its message
\* is empty, a row with a response has its respondedAt set, and a step that
\* changes a row leaves it with the verdict and the raw text of the reply
\* whose handler made the step.
C28_RespondedAtAndMessage ==
  [][ /\ \A r \in DOMAIN rsvps' :
           /\ rsvps'[r].response = "pending" <=>
                (rsvps'[r].respondedAt = "null" /\ rsvps'[r].message = <<>>)
           /\ rsvps'[r].response \in Resolved => rsvps'[r].respondedAt # "null"
      /\ \A r \in DOMAIN rsvps :
           /\ r \in DOMAIN rsvps'
           /\ rsvps'[r] # rsvps[r] =>
                /\ rsvps'[r].response \in Resolved
                /\ \E body \in ActingBodies :
                     /\ rsvps'[r].message = body
                     /\ rsvps'[r].response = parseRSVPResponse(body) ]_vars

\* a row declined by the reply `No` next to a row that is still pending
C28_Witness ==
  \E r, p \in DOMAIN rsvps :
    /\ rsvps[r].response = "declined" /\ rsvps[r].message = <<"N","o">>
    /\ rsvps[r].respondedAt = "date"
    /\ rsvps[p].response = "pending" /\ rsvps[p].message = <<>>

(***************************************************************************)
(* The scenario with the reply arriving from the number the invitation was *)
(* addressed to: the gateway reports the sender by the number it delivered *)
(* to (message.from), which is the `to` of the send.                       *)
(***************************************************************************)
NextAddressed ==
  \/ /\ eventObjs = <<>>
     /\ \E data \in EventInputs({[title |-> Gala], [title |-> Barbecue]},
                                ValidDates, ValidTimes, TwoInvitees, NoId) :
          createEvent(data)
  \/ /\ out.op = "createEvent"
     /\ sendInvitations(out.id)
  \/ \E o \in DOMAIN sends : sendOk(o)
  \/ \E o \in DOMAIN sends : sendFailed(o)
  \/ \E o \in DOMAIN sends : delayElapsed(o)
  \/ /\ out.op = "sendInvitations"
     /\ \E contactName \in {"", "Dana"}, body \in { <<"A","c","c","e","p","t">>, <<"N","o">> } :
          handleWhatsAppMessage([ phoneNumber |-> out.request.attempts[1].to,
                                  contactName |-> contactName,
                                  body |-> body,
                                  isGroup |-> FALSE ])
  \/ \E h \in DOMAIN replies : confirmationSent(h)
  \/ \E h \in DOMAIN replies : confirmationFailed(h)

SpecAddressed == InitE2E /\ [][NextAddressed]_vars

\* C29: once the reply from the number the first invitee's invitation was
\* addressed to is being handled or has been handled, that invitee's RSVP has
\* the reply's verdict.
C29_ReplyFromAddressedNumber ==
  E2EReplied =>
    LET id == eventObjs[1].id
        A == eventObjs[1].invitees[1]
    IN rsvps[getRSVPByEventAndPhone(Store, id, A)].response \in Resolved

(***************************************************************************)
(* Termination of the bulk send.  Every gateway call of a send returns or  *)
(* fails, and the timer of the delay fires; nothing else is assumed: the   *)
(* requests and the replies in between come or do not come.                *)
(***************************************************************************)
Fairness ==
  \A o \in 1..MaxSending :
    /\ WF_vars(sendOk(o) \/ sendFailed(o))
    /\ WF_vars(delayElapsed(o))

SpecLive == Init /\ [][Next]_vars /\ Fairness

\* the response of sendInvitations after a send attempt for every invitee
AllAttempted ==
  /\ out.op = "sendInvitations"
  /\ out.status = 200
  /\ PhonesOf(out.request.attempts) = out.request.phoneNumbers
  /\ out.data.total = Len(out.request.phoneNumbers)

\* C30: a request that has passed its checks and is in its bulk send leaves it
\* only by writing its response, with a send attempted for every invitee, and
\* it does leave it, whatever is handled in between.
C30_SendInvitationsTerminates ==
  /\ [][\A o \in DOMAIN sends :
          (sends[o].pc # "idle" /\ sends'[o].pc = "idle") =>
            (AllAttempted' /\ out'.request.id = sends[o].id)]_vars
  /\ \A o \in 1..MaxSending : (sends[o].pc # "idle") ~> AllAttempted

\* the response for two invitees whose event was deleted during the sends
C30_Witness ==
  /\ AllAttempted
  /\ out.data.total = 2
  /\ out.request.id \notin DOMAIN events

(***************************************************************************)
(* WebhookController.receiveWebhook, POST /webhook: the payload's messages *)
(* go one by one through WhatsAppService.processIncomingMessage, which     *)
(* calls the registered handler and then marks the message as read.  An    *)
(* invocation in flight holds a slot of `replies`:                         *)
(*   pc "webhook", at "handler": the handler called for message m is       *)
(*                 suspended in its confirmation send (the record handler) *)
(*   pc "webhook", at "read":    suspended in `await markMessageAsRead`    *)
(*   pc "done":    the response was written                                *)
(***************************************************************************)
MaxMessages == 2

\* the messages of Meta's format: text messages, a message of another type,
\* and a message of type text that has no text object
Messages ==
  { [type |-> "text", from |-> <<"1">>, text |-> [body |-> body]] :
      body \in { <<"A","c","c","e","p","t">>, <<"M","a","y","b","e">> } }
    \cup { [type |-> "image", from |-> <<"1">>], [type |-> "text", from |-> <<"1">>] }

Contacts == { <<>>, << [wa_id |-> <<"1">>, name |-> "Dana"] >> }

Payloads == [ contacts : Contacts, messages : SeqsUpTo(Messages, MaxMessages) ]

NewWebhook(payload) ==
  [ pc |-> "webhook", payload |-> payload, m |-> 1, at |-> "start",
    handler |-> Idle, calls |-> <<>>, reads |-> <<>> ]

\* whatsappService.ts 216-217
ContactNameOf(contacts, from) ==
  IF \E k \in DOMAIN contacts : contacts[k].wa_id = from
  THEN contacts[CHOOSE k \in DOMAIN contacts :
                  /\ contacts[k].wa_id = from
                  /\ \A j \in 1..(k - 1) : contacts[j].wa_id # from].name
  ELSE "Unknown"

\* whatsappService.ts 219-227
MessageDataOf(payload, message) ==
  [ phoneNumber |-> message.from,
    contactName |-> ContactNameOf(payload.contacts, message.from),
    body        |-> message.text.body,
    isGroup     |-> FALSE ]

\* line 233: the handler is called, and it returned
Started(w, messageData) ==
  [w EXCEPT !.calls = Append(@, [call |-> "start", m |-> w.m, messageData |-> messageData])]

Finished(w, rec) ==
  [w EXCEPT !.calls = Append(@, [call |-> "finish", m |-> w.m, outcome |-> rec.outcome]),
            !.at = "read", !.handler = Idle]

\* lines 233-237 after a run of the handler: suspended in it, or, when it
\* returned, in markMessageAsRead
AfterHandler(w, run) ==
  IF run.reply.pc = "done"
  THEN [rsvps |-> run.rsvps, webhook |-> Finished(w, run.reply)]
  ELSE [rsvps |-> run.rsvps, webhook |-> [w EXCEPT !.at = "handler", !.handler = run.reply]]

RECURSIVE WebhookLoop(_, _)
\* handleIncomingWebhook at the head of its for-loop with message w.m next, up
\* to the next await that suspends, or done when the loop is over
WebhookLoop(rows, w) ==
  IF w.m > Len(w.payload.messages)
  THEN [rsvps |-> rows, webhook |-> [w EXCEPT !.pc = "done"]]
  ELSE LET message == w.payload.messages[w.m]
       IN IF message.type # "text"
          THEN WebhookLoop(rows, [w EXCEPT !.m = @ + 1])
          ELSE IF "text" \notin DOMAIN message
          THEN WebhookLoop(rows, [w EXCEPT !.m = @ + 1])
          ELSE LET messageData == MessageDataOf(w.payload, message)
                   rec == Triage(rows, messageData)
               IN AfterHandler(Started(w, messageData),
                               IF rec.pc = "done" THEN [rsvps |-> rows, reply |-> rec]
                               ELSE ConfirmLoop(rows, rec))

\* the bookkeeping of a webhook request: suspended in slot h, or responded
SettleWebhook(h, run) ==
  /\ rsvps' = run.rsvps
  /\ IF run.webhook.pc = "done"
     THEN /\ replies' = [replies EXCEPT ![h] = Idle]
          /\ out' = [op |-> "receiveWebhook", status |-> 200, webhook |-> run.webhook]
     ELSE /\ replies' = [replies EXCEPT ![h] = run.webhook]
          /\ out' = NoOut

\* POST /webhook: part_006 lines 111-119 up to the first await that suspends
receiveWebhook(payload) ==
  /\ FreeSlots(replies) # {}
  /\ SettleWebhook(FirstFree(replies), WebhookLoop(rsvps, NewWebhook(payload)))
  /\ UNCHANGED <<ready, eventObjs, events, rsvpIndex, sends>>

\* the handler's confirmation send returned: its loop goes on
handlerConfirmationSent(h) ==
  /\ replies[h].pc = "webhook" /\ replies[h].at = "handler"
  /\ SettleWebhook(h, AfterHandler(replies[h],
                     ConfirmLoop(rsvps, [replies[h].handler EXCEPT !.i = @ + 1])))
  /\ UNCHANGED <<ready, eventObjs, events, rsvpIndex, sends>>

\* the handler's confirmation send threw: the handler catches and returns
handlerConfirmationFailed(h) ==
  /\ replies[h].pc = "webhook" /\ replies[h].at = "handler"
  /\ SettleWebhook(h, AfterHandler(replies[h],
                     [rsvps |-> rsvps, reply |-> Return(replies[h].handler, "caught")]))
  /\ UNCHANGED <<ready, eventObjs, events, rsvpIndex, sends>>

\* a variant of the failed markMessageAsRead that gives the payload up
markMessageAsReadFailedAborts(h) ==
  /\ replies[h].pc = "webhook" /\ replies[h].at = "read"
  /\ SettleWebhook(h, [rsvps |-> rsvps,
                       webhook |-> [replies[h] EXCEPT !.pc = "done",
                                                      !.reads = Append(@, FALSE)]])
  /\ UNCHANGED <<ready, eventObjs, events, rsvpIndex, sends>>

\* whatsappService.ts 246-260: the gateway call of markMessageAsRead returned,
\* or it threw and lines 256-258 caught; the payload's loop goes on
markMessageAsReadOk(h) ==
  /\ replies[h].pc = "webhook" /\ replies[h].at = "read"
  /\ SettleWebhook(h, WebhookLoop(rsvps, [replies[h] EXCEPT !.m = @ + 1, !.at = "start",
                                                            !.reads = Append(@, TRUE)]))
  /\ UNCHANGED <<ready, eventObjs, events, rsvpIndex, sends>>

markMessageAsReadFailed(h) ==
  /\ replies[h].pc = "webhook" /\ replies[h].at = "read"
  /\ SettleWebhook(h, WebhookLoop(rsvps, [replies[h] EXCEPT !.m = @ + 1, !.at = "start",
                                                            !.reads = Append(@, FALSE)]))
  /\ UNCHANGED <<ready, eventObjs, events, rsvpIndex, sends>>

NextWebhook ==
  \/ \E data \in EventInputs(ValidTitles, ValidDates, ValidTimes,
                             { [invitees |-> << <<"1">> >>] }, NoId) : createEvent(data)
  \/ \E id \in DOMAIN events : deleteEvent(id)
  \/ \E id \in DOMAIN events : sendInvitations(id)
  \/ \E o \in DOMAIN sends : sendOk(o)
  \/ \E o \in DOMAIN sends : sendFailed(o)
  \/ \E o \in DOMAIN sends : delayElapsed(o)
  \/ \E payload \in Payloads : receiveWebhook(payload)
  \/ \E h \in DOMAIN replies : handlerConfirmationSent(h)
  \/ \E h \in DOMAIN replies : handlerConfirmationFailed(h)
  \/ \E h \in DOMAIN replies : markMessageAsReadOk(h)
  \/ \E h \in DOMAIN replies : markMessageAsReadFailed(h)

SpecWebhook == InitE2E /\ [][NextWebhook]_vars

\* the message is a text message: of type text, with its text
IsTextMessage(message) == message.type = "text" /\ "text" \in DOMAIN message

RECURSIVE ExpectedCalls(_, _)
\* one call and one return of the handler per text message from the m-th
\* on, in payload order, with the sender and the text of the message
ExpectedCalls(messages, m) ==
  IF m > Len(messages) THEN <<>>
  ELSE IF IsTextMessage(messages[m])
       THEN << <<"start", m, messages[m].from, messages[m].text.body>>, <<"finish", m>> >>
              \o ExpectedCalls(messages, m + 1)
       ELSE ExpectedCalls(messages, m + 1)

\* the calls and returns of the handler so far, as in ExpectedCalls
CallsOf(w) ==
  [k \in DOMAIN w.calls |->
     IF w.calls[k].call = "start"
     THEN <<"start", w.calls[k].m, w.calls[k].messageData.phoneNumber,
            w.calls[k].messageData.body>>
     ELSE <<"finish", w.calls[k].m>>]

IsPrefix(s, t) == Len(s) <= Len(t) /\ SubSeq(t, 1, Len(s)) = s

\* C27: while a payload is processed, the calls and returns of the handler so
\* far are a start of: one call and its return for each text message, in
\* payload order, and none for another message; and when the response is
\* written they are all of these, whatever failed on the way.
C27_OneInvocationPerTextMessage ==
  /\ \A h \in DOMAIN replies :
       replies[h].pc = "webhook" =>
         /\ IsPrefix(CallsOf(replies[h]), ExpectedCalls(replies[h].payload.messages, 1))
         /\ replies[h].at = "handler" <=> Len(replies[h].calls) % 2 = 1
  /\ out.op = "receiveWebhook" =>
       CallsOf(out.webhook) = ExpectedCalls(out.webhook.payload.messages, 1)

\* a payload of two text messages answered: the handler's confirmation send
\* for the first failed, marking it as read failed, and the handler was
\* called for the second
C27_Witness ==
  /\ out.op = "receiveWebhook"
  /\ Len(out.webhook.calls) = 4
  /\ out.webhook.calls[2].outcome = "caught"
  /\ out.webhook.reads[1] = FALSE

====
